---- MODULE Spec2Model ----
(***************************************************************************)
(* A model of the log-structured key-value engine of src/engines/kvs.rs    *)
(* (KvStore, Logger, compaction, recovery) and of the request loop of      *)
(* src/server.rs.                                                          *)
(*                                                                         *)
(* Byte accounting is exact: a log file is the sequence of the command     *)
(* records appended to it, every record has the length of its serde_json   *)
(* encoding, and offsets, lengths and the write cursor are byte counts.    *)
(* Strings are modelled as a character repeated n times, so that a value   *)
(* of a mebibyte is one small record of the model.                         *)
(***************************************************************************)
EXTENDS Integers, Sequences, FiniteSets, TLC

\* ------------------------------------------------------------------ bounds
\* length in bytes of the long value the clients may write: its Set record
\* alone exceeds the compaction threshold
BigLen == 1048576
\* length in bytes of the medium value: two Set records of it under keys
\* of one byte are 1048576 bytes, the compaction threshold exactly
HalfLen == 524258
\* number of set, remove and open calls explored
MaxOps == 4
\* number of connections the server accepts
MaxConns == 2
\* number of requests the clients send, over all connections
MaxReqs == 2
\* number of kvs-client commands run
MaxCmds == 3
\* number of records of a log found on disk
MaxRecs == 3

\* ------------------------------------------------------- program constants
MAX_LOG_UNCOMPACTED_BYTES == 1024 * 1024

\* --------------------------------------------------------------- the inputs
Keys == {"a", "b"}
Str(c, n) == [ch |-> c, n |-> n]
StrLen(s) == s.n
Values == {Str("x", 1), Str("y", HalfLen), Str("z", BigLen)}
NoVal == Str("", 0)

\* ------------------------------------------------------------ results
OkUnit == [tag |-> "Ok"]
OkNone == [tag |-> "Ok", some |-> FALSE]
OkSome(v) == [tag |-> "Ok", some |-> TRUE, value |-> v]
Err(e) == [tag |-> "Err", error |-> e]

\* ------------------------------------------------------------ Cmd, CmdIdx
CmdSet(k, v) == [type |-> "Set", key |-> k, value |-> v]
CmdRemove(k) == [type |-> "Remove", key |-> k]
CmdEmpty == [type |-> "Empty"]
\* bytes of a log that decode to no command: malformed, or cut short
CmdCorrupt == [type |-> "Corrupt"]
CmdIdx(start, len, cmd) == [start |-> start, len |-> len, cmd |-> cmd]

\* Cmd::get_key
get_key(cmd) == cmd.key

\* HashMap::insert
Insert(f, k, e) == [x \in (DOMAIN f) \cup {k} |-> IF x = k THEN e ELSE f[x]]
EmptyMap == [x \in {} |-> 0]

\* the number of bytes serde_json::to_writer emits for a command:
\*   {"Set":{"key":"K","value":"V"}}    {"Remove":{"key":"K"}}    "Empty"
SerLen(cmd) ==
    CASE cmd.type = "Set" -> 29 + Len(cmd.key) + StrLen(cmd.value)
      [] cmd.type = "Remove" -> 21 + Len(cmd.key)
      [] OTHER -> 7

\* the length in bytes of a file holding the records recs
RECURSIVE FileLen(_)
FileLen(recs) == IF recs = <<>> THEN 0 ELSE SerLen(Head(recs)) + FileLen(Tail(recs))

\* the byte offset of the i-th record of a file (i = Len+1: the end of file)
Offset(recs, i) == FileLen(SubSeq(recs, 1, i - 1))

\* serde_json::from_reader over the reader seeked to start and limited to
\* len bytes: one value is parsed, then only white space may follow up to
\* the end of the window.  A window that starts at the end of the file or
\* inside a record, that ends inside the record, or that covers bytes of a
\* following record is a decoding error.
from_reader(recs, start, len) ==
    LET at == {i \in 1..Len(recs) : Offset(recs, i) = start}
        stop == IF start + len < FileLen(recs) THEN start + len ELSE FileLen(recs)
    IN  IF at = {} THEN Err("Serde")
        ELSE LET i == CHOOSE j \in at : TRUE
             IN  IF stop = Offset(recs, i + 1)
                 THEN [tag |-> "Ok", cmd |-> recs[i]]
                 ELSE Err("Serde")

\* ------------------------------------------------------------------ state
VARIABLES
    files,        \* the .log files of the data directory: name -> records
    uuids,        \* the number of file names Uuid::new_v4 has produced
    engine,       \* "open", or "failed" when KvStore::open returned an error, "none"
                  \* before kvs-server opened one, "sled" for the sled engine
    logger,       \* KvStore.logger: filename, writer, reader, pos
    index,        \* KvStore.index: key -> CmdIdx
    uncompacted,  \* KvStore.uncompacted
    last,         \* the last call made on the engine and what it returned
    kv,           \* what the calls made so far imply for each key
    reopened,     \* whether the engine was dropped and opened again
    nops,         \* the number of set, remove and open calls made
    srv,          \* KvsServer::run: "accept" in listener.incoming, "serve" in serve;
                  \* "start" before main of kvs-server ran, "exited" after it left,
                  \* "sled" when it serves the sled engine
    conn,         \* the connection being served, or the one served last
    accepted,     \* the number of connections accepted
    requests,     \* the number of requests the clients have sent
    backlog,      \* the connections established and not yet accepted, oldest first
    executed,     \* the connection of every request executed, in execution order
    process       \* kvs-server: the engine selected, the directories of the current
                  \* directory, the directory opened, the exit status (-1: running)

engineVars == <<files, uuids, engine, logger, index, uncompacted, last, kv, reopened, nops>>
serverVars == <<srv, conn, accepted, requests, backlog, executed, process>>
vars == <<files, uuids, engine, logger, index, uncompacted, last, kv, reopened, nops,
          srv, conn, accepted, requests, backlog, executed, process>>

\* the store and its directory as one value, for the operators below
St == [files |-> files, uuids |-> uuids, logger |-> logger,
       index |-> index, uncompacted |-> uncompacted]

\* get_file_handler: OpenOptions read + append + create
get_file_handler(fs, path) == IF path \in DOMAIN fs THEN fs ELSE Insert(fs, path, <<>>)

\* std::fs::remove_file
remove_file(fs, path) == [x \in (DOMAIN fs) \ {path} |-> fs[x]]

\* serde_json::to_writer(&mut self.logger, &cmd) followed by flush: the
\* writer's file is opened in append mode, Logger::write advances pos
to_writer(st, cmd) ==
    [st EXCEPT !.files[st.logger.writer] = Append(@, cmd),
               !.logger.pos = @ + SerLen(cmd)]

\* the loop of KvStore::compact over self.index.iter(), ks being the order
\* in which the hash map yields its keys
RECURSIVE CompactLoop(_, _, _, _)
CompactLoop(st, ks, pos, new_index) ==
    IF ks = <<>> THEN [st |-> st, pos |-> pos, new_index |-> new_index]
    ELSE LET k == Head(ks)
             cmd == st.index[k].cmd
             s1 == to_writer(st, cmd)
             len == s1.logger.pos - pos
         IN  CompactLoop(s1, Tail(ks), pos + len,
                         Insert(new_index, k, CmdIdx(pos, len, cmd)))

\* KvStore::compact without the reset of uncompacted
compact_keep_uncompacted(st, order) ==
    LET old_log == st.logger.filename
        new_log == st.uuids
        s0 == [st EXCEPT !.uuids = @ + 1,
                         !.files = get_file_handler(@, new_log),
                         !.logger.writer = new_log]
        ks == SelectSeq(order, LAMBDA k : k \in DOMAIN st.index)
        lp == CompactLoop(s0, ks, 0, EmptyMap)
        s1 == [lp.st EXCEPT !.logger.reader = new_log,
                            !.index = lp.new_index,
                            !.logger.pos = lp.pos]
    IN  IF old_log \in DOMAIN s1.files
        THEN [st |-> [s1 EXCEPT !.files = remove_file(@, old_log)], res |-> OkUnit]
        ELSE [st |-> s1, res |-> Err("IO")]

\* KvStore::compact with uncompacted reset only after the old file was
\* removed
compact_reset_last(st, order) ==
    LET old_log == st.logger.filename
        new_log == st.uuids
        s0 == [st EXCEPT !.uuids = @ + 1,
                         !.files = get_file_handler(@, new_log),
                         !.logger.writer = new_log]
        ks == SelectSeq(order, LAMBDA k : k \in DOMAIN st.index)
        lp == CompactLoop(s0, ks, 0, EmptyMap)
        s1 == [lp.st EXCEPT !.logger.reader = new_log,
                            !.index = lp.new_index,
                            !.logger.pos = lp.pos]
    IN  IF old_log \in DOMAIN s1.files
        THEN [st |-> [s1 EXCEPT !.files = remove_file(@, old_log), !.uncompacted = 0],
              res |-> OkUnit]
        ELSE [st |-> s1, res |-> Err("IO")]

\* KvStore::compact; order is a sequence of all keys, the index is iterated
\* in that order
compact(st, order) ==
    LET old_log == st.logger.filename
        new_log == st.uuids
        s0 == [st EXCEPT !.uuids = @ + 1,
                         !.files = get_file_handler(@, new_log),
                         !.logger.writer = new_log]
        ks == SelectSeq(order, LAMBDA k : k \in DOMAIN st.index)
        lp == CompactLoop(s0, ks, 0, EmptyMap)
        s1 == [lp.st EXCEPT !.logger.reader = new_log,
                            !.index = lp.new_index,
                            !.logger.pos = lp.pos,
                            !.uncompacted = 0]
    IN  IF old_log \in DOMAIN s1.files
        THEN [st |-> [s1 EXCEPT !.files = remove_file(@, old_log)], res |-> OkUnit]
        ELSE [st |-> s1, res |-> Err("IO")]

\* the part of set and remove before the compaction check: append the
\* record, point the index at it, charge its length
append(st, k, cmd) ==
    LET pos == st.logger.pos
        s1 == to_writer(st, cmd)
        len == s1.logger.pos - pos
    IN  [s1 EXCEPT !.index = Insert(@, k, CmdIdx(pos, len, cmd)),
                   !.uncompacted = @ + len]

\* the compaction check with >= in place of >
maybe_compact_at_limit(st, order) ==
    IF st.uncompacted >= MAX_LOG_UNCOMPACTED_BYTES
    THEN LET c == compact(st, order) IN [st |-> c.st, res |-> c.res, compacted |-> TRUE]
    ELSE [st |-> st, res |-> OkUnit, compacted |-> FALSE]

\* the compaction check that ends set and remove
maybe_compact(st, order) ==
    IF st.uncompacted > MAX_LOG_UNCOMPACTED_BYTES
    THEN LET c == compact(st, order) IN [st |-> c.st, res |-> c.res, compacted |-> TRUE]
    ELSE [st |-> st, res |-> OkUnit, compacted |-> FALSE]

\* KvStore::set
set(st, k, v, order) == maybe_compact(append(st, k, CmdSet(k, v)), order)

\* KvStore::remove without the look-up of the key in the index
remove_unchecked(st, k, order) ==
    maybe_compact(append(st, k, CmdRemove(k)), order)

\* KvStore::remove
remove(st, k, order) ==
    IF k \notin DOMAIN st.index
    THEN [st |-> st, res |-> Err("KeyNotFound"), compacted |-> FALSE]
    ELSE maybe_compact(append(st, k, CmdRemove(k)), order)

\* KvStore::get
get(st, k) ==
    IF k \in DOMAIN st.index
    THEN LET r == from_reader(st.files[st.logger.reader],
                              st.index[k].start, st.index[k].len)
         IN  IF r.tag = "Err" THEN r
             ELSE IF r.cmd.type = "Set" THEN OkSome(r.cmd.value) ELSE OkNone
    ELSE OkNone

\* get_log_name: the fold over the directory listing keeps the first entry
\* with the extension log (every file of the model has it), and the fresh
\* name when there is none
RECURSIVE FoldLogName(_, _, _)
FoldLogName(listing, ret, default_pathbuf) ==
    IF listing = <<>> THEN ret
    ELSE FoldLogName(Tail(listing),
                     IF ret = default_pathbuf THEN Head(listing) ELSE ret,
                     default_pathbuf)

get_log_name(listing, default_pathbuf) ==
    FoldLogName(listing, default_pathbuf, default_pathbuf)

\* the loop of KvStore::open with an insert that keeps the entry a key
\* already has
RECURSIVE Replay_keep_first(_, _, _)
Replay_keep_first(recs, read_pos, idx) ==
    IF recs = <<>> THEN [res |-> OkUnit, index |-> idx, read_pos |-> read_pos]
    ELSE LET cmd == Head(recs)
             len == SerLen(cmd)
             cmd_idx == CmdIdx(read_pos, len, CmdEmpty)
         IN  IF cmd.type = "Corrupt"
             THEN [res |-> Err("Serde"), index |-> idx, read_pos |-> read_pos]
             ELSE IF cmd.type = "Empty"
             THEN [res |-> Err("UnexpectedCommandType"), index |-> idx, read_pos |-> read_pos]
             ELSE Replay_keep_first(Tail(recs), read_pos + len,
                    IF get_key(cmd) \in DOMAIN idx THEN idx
                    ELSE Insert(idx, get_key(cmd), [cmd_idx EXCEPT !.cmd = cmd]))

\* the loop of KvStore::open with the entry inserted as it was created,
\* its placeholder command not replaced by the command read
RECURSIVE Replay_placeholder(_, _, _)
Replay_placeholder(recs, read_pos, idx) ==
    IF recs = <<>> THEN [res |-> OkUnit, index |-> idx, read_pos |-> read_pos]
    ELSE LET cmd == Head(recs)
             len == SerLen(cmd)
             cmd_idx == CmdIdx(read_pos, len, CmdEmpty)
         IN  IF cmd.type = "Corrupt"
             THEN [res |-> Err("Serde"), index |-> idx, read_pos |-> read_pos]
             ELSE IF cmd.type = "Empty"
             THEN [res |-> Err("UnexpectedCommandType"), index |-> idx, read_pos |-> read_pos]
             ELSE Replay_placeholder(Tail(recs), read_pos + len,
                    Insert(idx, get_key(cmd), cmd_idx))

\* the loop of KvStore::open ending at a record that is no Set or Remove
\* as it ends at the end of the file
RECURSIVE Replay_stop_at_bad(_, _, _)
Replay_stop_at_bad(recs, read_pos, idx) ==
    IF recs = <<>> THEN [res |-> OkUnit, index |-> idx, read_pos |-> read_pos]
    ELSE LET cmd == Head(recs)
             len == SerLen(cmd)
             cmd_idx == CmdIdx(read_pos, len, CmdEmpty)
         IN  IF cmd.type = "Corrupt"
             THEN [res |-> OkUnit, index |-> idx, read_pos |-> read_pos]
             ELSE IF cmd.type = "Empty"
             THEN [res |-> OkUnit, index |-> idx, read_pos |-> read_pos]
             ELSE Replay_stop_at_bad(Tail(recs), read_pos + len,
                    Insert(idx, get_key(cmd), [cmd_idx EXCEPT !.cmd = cmd]))

\* the loop of KvStore::open over the records of the log: the entry is
\* created with the placeholder Cmd::Empty, cmd? returns the error of a
\* record that does not decode, an Empty record is refused, and any other
\* command replaces the placeholder before the entry is inserted
RECURSIVE Replay(_, _, _)
Replay(recs, read_pos, idx) ==
    IF recs = <<>> THEN [res |-> OkUnit, index |-> idx, read_pos |-> read_pos]
    ELSE LET cmd == Head(recs)
             len == SerLen(cmd)
             cmd_idx == CmdIdx(read_pos, len, CmdEmpty)
         IN  IF cmd.type = "Corrupt"
             THEN [res |-> Err("Serde"), index |-> idx, read_pos |-> read_pos]
             ELSE IF cmd.type = "Empty"
             THEN [res |-> Err("UnexpectedCommandType"), index |-> idx, read_pos |-> read_pos]
             ELSE Replay(Tail(recs), read_pos + len,
                    Insert(idx, get_key(cmd), [cmd_idx EXCEPT !.cmd = cmd]))

\* KvStore::open on the directory holding fs; listing is the order in which
\* read_dir yields the entries
open(fs, uu, listing) ==
    LET filename == get_log_name(listing, uu)
        uu1 == IF filename = uu THEN uu + 1 ELSE uu
        fs1 == get_file_handler(fs, filename)
        rp == Replay(fs1[filename], 0, EmptyMap)
    IN  [res |-> rp.res,
         st |-> [files |-> fs1, uuids |-> uu1,
                 logger |-> [filename |-> filename, writer |-> filename,
                             reader |-> filename, pos |-> rp.read_pos],
                 index |-> rp.index, uncompacted |-> 0]]

\* ------------------------------------------------------------ the actions
Perms(S) == {s \in [1..Cardinality(S) -> S] : \A i, j \in DOMAIN s : s[i] = s[j] => i = j}

Call(op, k, v, res, c) == [op |-> op, key |-> k, value |-> v, res |-> res, compacted |-> c]

\* the abstract key-value map: a call that returns Ok decides its key, a
\* remove refused with KeyNotFound leaves it as it was, and a call that
\* returns another error leaves its key undecided
Implied(old, new, res) ==
    IF res.tag = "Ok" THEN new
    ELSE IF res = Err("KeyNotFound") THEN old
    ELSE [state |-> "Undecided"]

\* what get has to return for a key of the abstract map
Expected(e) == IF e.state = "Set" THEN OkSome(e.value) ELSE OkNone

Install(st) ==
    /\ files' = st.files
    /\ uuids' = st.uuids
    /\ logger' = st.logger
    /\ index' = st.index
    /\ uncompacted' = st.uncompacted

\* a connection nobody has written to yet
NewConn(id) == [id |-> id, sent |-> <<>>, inbox |-> <<>>, closed |-> FALSE,
                decoded |-> <<>>, responses |-> <<>>, result |-> "serving"]

Init ==
    LET o == open(EmptyMap, 0, <<>>)
    IN  /\ files = o.st.files
        /\ uuids = o.st.uuids
        /\ engine = "open"
        /\ logger = o.st.logger
        /\ index = o.st.index
        /\ uncompacted = o.st.uncompacted
        /\ last = Call("open", "", NoVal, o.res, FALSE)
        /\ kv = [k \in Keys |-> [state |-> "NeverSet"]]
        /\ reopened = FALSE
        /\ nops = 0
        /\ srv = "accept"
        /\ conn = [NewConn(0) EXCEPT !.closed = TRUE, !.result = "none"]
        /\ accepted = 0
        /\ requests = 0
        /\ backlog = <<>>
        /\ executed = <<>>
        /\ process = [engine |-> "Kvs", dirs |-> {"kvs"}, opened |-> "kvs", status |-> -1]

\* a call of set on the engine
EngineSet(k, v, order) ==
    LET r == set(St, k, v, order)
    IN  /\ Install(r.st)
        /\ last' = Call("set", k, v, r.res, r.compacted)
        /\ kv' = [kv EXCEPT ![k] = Implied(@, [state |-> "Set", value |-> v], r.res)]
        /\ nops' = nops + 1
        /\ UNCHANGED <<engine, reopened>>

\* a call of remove on the engine
EngineRemove(k, order) ==
    LET r == remove(St, k, order)
    IN  /\ Install(r.st)
        /\ last' = Call("remove", k, NoVal, r.res, r.compacted)
        /\ kv' = [kv EXCEPT ![k] = Implied(@, [state |-> "Removed"], r.res)]
        /\ nops' = nops + 1
        /\ UNCHANGED <<engine, reopened>>

\* a call of get on the engine with a seek that moves the cursor of the
\* logger, as its write does
EngineGet_seek_moves_pos(k) ==
    /\ last' = Call("get", k, NoVal, get(St, k), FALSE)
    /\ logger' = IF k \in DOMAIN index THEN [logger EXCEPT !.pos = index[k].start]
                 ELSE logger
    /\ UNCHANGED <<files, uuids, engine, index, uncompacted, kv, reopened, nops>>

\* a call of get on the engine
EngineGet(k) ==
    /\ last' = Call("get", k, NoVal, get(St, k), FALSE)
    /\ UNCHANGED <<files, uuids, engine, logger, index, uncompacted, kv, reopened, nops>>

Set ==
    /\ engine = "open"
    /\ nops < MaxOps
    /\ \E k \in Keys, v \in Values, order \in Perms(Keys) : EngineSet(k, v, order)
    /\ UNCHANGED serverVars

Remove ==
    /\ engine = "open"
    /\ nops < MaxOps
    /\ \E k \in Keys, order \in Perms(Keys) : EngineRemove(k, order)
    /\ UNCHANGED serverVars

Get ==
    /\ engine = "open"
    /\ \E k \in Keys : EngineGet(k)
    /\ UNCHANGED serverVars

\* drop the engine and open it again on the same directory
Reopen ==
    /\ engine = "open"
    /\ nops < MaxOps
    /\ \E listing \in Perms(DOMAIN files) :
         LET o == open(files, uuids, listing)
         IN  /\ Install(o.st)
             /\ engine' = IF o.res.tag = "Ok" THEN "open" ELSE "failed"
             /\ last' = Call("open", "", NoVal, o.res, FALSE)
    /\ nops' = nops + 1
    /\ reopened' = TRUE
    /\ UNCHANGED kv
    /\ UNCHANGED serverVars

Next == Set \/ Remove \/ Get \/ Reopen

Spec == Init /\ [][Next]_vars

\* ------------------------------------------------- opening a log found on disk
\* what a log found on disk may hold
Records == {CmdSet("a", Str("x", 1)), CmdSet("b", Str("x", 1)), CmdRemove("a"),
            CmdEmpty, CmdCorrupt}
Logs == UNION {[1..n -> Records] : n \in 0..MaxRecs}

\* a directory with one log file of any records, and no engine yet
InitRecovery ==
    /\ \E recs \in Logs : files = [f \in {0} |-> recs]
    /\ uuids = 1
    /\ engine = "none"
    /\ logger = [filename |-> 0, writer |-> 0, reader |-> 0, pos |-> 0]
    /\ index = EmptyMap
    /\ uncompacted = 0
    /\ last = Call("none", "", NoVal, OkUnit, FALSE)
    /\ kv = [k \in Keys |-> [state |-> "Undecided"]]
    /\ reopened = FALSE
    /\ nops = 0
    /\ srv = "accept"
    /\ conn = [NewConn(0) EXCEPT !.closed = TRUE, !.result = "none"]
    /\ accepted = 0
    /\ requests = 0
    /\ backlog = <<>>
    /\ executed = <<>>
    /\ process = [engine |-> "Kvs", dirs |-> {"kvs"}, opened |-> "kvs", status |-> -1]

\* KvStore::open on the directory: Ok(store), or Err and no store
Open ==
    /\ engine = "none"
    /\ \E listing \in Perms(DOMAIN files) :
         LET o == open(files, uuids, listing)
         IN  IF o.res.tag = "Ok"
             THEN /\ Install(o.st)
                  /\ engine' = "open"
                  /\ last' = Call("open", "", NoVal, o.res, FALSE)
             ELSE /\ Install([o.st EXCEPT !.index = EmptyMap, !.logger.pos = 0])
                  /\ engine' = "failed"
                  /\ last' = Call("open", "", NoVal, o.res, FALSE)
    /\ UNCHANGED <<kv, reopened, nops>>
    /\ UNCHANGED serverVars

NextRecovery == Open \/ Get

SpecRecovery == InitRecovery /\ [][NextRecovery]_vars

\* ------------------------------------------------------- the wire protocol
\* transport::Request, and bytes that decode to no request
ReqGet(k) == [type |-> "Get", key |-> k]
ReqSet(k, v) == [type |-> "Set", key |-> k, value |-> v]
ReqRemove(k) == [type |-> "Remove", key |-> k]
Malformed == [type |-> "Malformed"]
Requests == {ReqGet(k) : k \in Keys} \cup {ReqSet(k, v) : k \in Keys, v \in Values}
            \cup {ReqRemove(k) : k \in Keys}

\* format!("{e}") of an engine error
ErrorMessage(e) == [msg |-> IF e = "KeyNotFound" THEN "Key not found" ELSE e]

\* the response variants of transport.rs
ResponseGet(res) ==
    IF res.tag = "Ok" THEN [variant |-> "ResponseGet", tag |-> "Ok", value |-> res]
    ELSE [variant |-> "ResponseGet", tag |-> "Err", error |-> ErrorMessage(res.error)]
ResponseSet(res) ==
    IF res.tag = "Ok" THEN [variant |-> "ResponseSet", tag |-> "Ok"]
    ELSE [variant |-> "ResponseSet", tag |-> "Err", error |-> ErrorMessage(res.error)]
ResponseRemove(res) ==
    IF res.tag = "Ok" THEN [variant |-> "ResponseRemove", tag |-> "Ok"]
    ELSE [variant |-> "ResponseRemove", tag |-> "Err", error |-> ErrorMessage(res.error)]

\* the response serve sends for a request, with every request answered as
\* a get
response_as_get(request, res) == ResponseGet(res)

\* the match of KvsServer::serve: the response sent for a request the
\* engine answered with res
response(request, res) ==
    CASE request.type = "Get" -> ResponseGet(res)
      [] request.type = "Set" -> ResponseSet(res)
      [] request.type = "Remove" -> ResponseRemove(res)

\* serde_json::to_writer of a response: {"Ok":null}, {"Ok":"v"}, {"Err":"m"};
\* the variant is not on the wire
Encode(resp) ==
    IF resp.tag = "Err" THEN [tag |-> "Err", json |-> "string", str |-> resp.error]
    ELSE IF resp.variant = "ResponseGet" /\ resp.value.some
    THEN [tag |-> "Ok", json |-> "string", str |-> resp.value.value]
    ELSE [tag |-> "Ok", json |-> "null"]

\* the deserialize of the client for the variant it expects
Decode(variant, wire) ==
    IF wire.tag = "Err"
    THEN IF wire.json = "string" THEN Err([StringError |-> wire.str])
         ELSE [tag |-> "DecodeError"]
    ELSE IF variant = "ResponseGet"
    THEN IF wire.json = "string" THEN OkSome(wire.str) ELSE OkNone
    ELSE IF wire.json = "null" THEN OkUnit ELSE [tag |-> "DecodeError"]

\* the variant KvsClient::get, set and remove deserialize
ExpectedVariant(request) ==
    CASE request.type = "Get" -> "ResponseGet"
      [] request.type = "Set" -> "ResponseSet"
      [] request.type = "Remove" -> "ResponseRemove"

\* ------------------------------------------------------------- the server
\* a client connects: the connection waits in the queue of the listener
ClientConnect ==
    /\ srv \in {"accept", "serve"}
    /\ accepted + Len(backlog) < MaxConns
    /\ backlog' = Append(backlog, NewConn(accepted + Len(backlog) + 1))
    /\ UNCHANGED <<process, srv, conn, accepted, requests, executed>>
    /\ UNCHANGED engineVars

\* the accept loop handing every stream to its own worker: a waiting stream
\* is taken up while the one before it is still served, which then waits
Accept_preempt ==
    /\ backlog # <<>>
    /\ srv' = "serve"
    /\ conn' = Head(backlog)
    /\ backlog' = IF srv = "serve" THEN Append(Tail(backlog), conn) ELSE Tail(backlog)
    /\ accepted' = IF srv = "serve" THEN accepted ELSE accepted + 1
    /\ UNCHANGED <<process, requests, executed>>
    /\ UNCHANGED engineVars

\* listener.incoming() yields the oldest waiting stream
Accept ==
    /\ srv = "accept"
    /\ backlog # <<>>
    /\ srv' = "serve"
    /\ conn' = Head(backlog)
    /\ backlog' = Tail(backlog)
    /\ accepted' = accepted + 1
    /\ UNCHANGED <<process, requests, executed>>
    /\ UNCHANGED engineVars

\* what a client's write of request does to its connection
Sent(c, request) == [c EXCEPT !.sent = Append(@, request), !.inbox = Append(@, request)]

\* the client of the connection being served, or of a waiting one, writes a
\* request, or bytes that are none
ClientSend ==
    /\ requests < MaxReqs
    /\ \E request \in Requests \cup {Malformed} :
         \/ /\ srv = "serve"
            /\ ~conn.closed
            /\ conn' = Sent(conn, request)
            /\ UNCHANGED backlog
         \/ /\ \E i \in 1..Len(backlog) :
                 /\ ~backlog[i].closed
                 /\ backlog' = [backlog EXCEPT ![i] = Sent(@, request)]
            /\ UNCHANGED conn
    /\ requests' = requests + 1
    /\ UNCHANGED <<process, srv, accepted, executed>>
    /\ UNCHANGED engineVars

\* a client closes its connection
ClientClose ==
    /\ \/ /\ srv = "serve"
          /\ ~conn.closed
          /\ conn' = [conn EXCEPT !.closed = TRUE]
          /\ UNCHANGED backlog
       \/ /\ \E i \in 1..Len(backlog) :
               /\ ~backlog[i].closed
               /\ backlog' = [backlog EXCEPT ![i].closed = TRUE]
          /\ UNCHANGED conn
    /\ UNCHANGED <<process, srv, accepted, requests, executed>>
    /\ UNCHANGED engineVars

\* one iteration of the loop of serve with the engine's error returned by
\* the ? operator instead of sent: serve ends without a response
ServeRequest_abort ==
    /\ srv = "serve"
    /\ conn.inbox # <<>>
    /\ Head(conn.inbox) # Malformed
    /\ LET request == Head(conn.inbox)
       IN  /\ CASE request.type = "Get" -> EngineGet(request.key)
                [] request.type = "Set" ->
                     \E order \in Perms(Keys) : EngineSet(request.key, request.value, order)
                [] request.type = "Remove" ->
                     \E order \in Perms(Keys) : EngineRemove(request.key, order)
           /\ IF last'.res.tag = "Err"
              THEN /\ conn' = [conn EXCEPT !.inbox = <<>>, !.closed = TRUE,
                                           !.decoded = Append(@, request),
                                           !.result = "error"]
                   /\ srv' = "accept"
              ELSE /\ conn' = [conn EXCEPT !.inbox = Tail(@),
                                           !.decoded = Append(@, request),
                                           !.responses = Append(@, response(request, last'.res))]
                   /\ srv' = srv
           /\ executed' = Append(executed, conn.id)
    /\ UNCHANGED <<process, accepted, requests, backlog>>

\* one iteration of the loop of serve: decode a request, execute it, send
\* and flush the response
ServeRequest ==
    /\ srv = "serve"
    /\ conn.inbox # <<>>
    /\ Head(conn.inbox) # Malformed
    /\ LET request == Head(conn.inbox)
       IN  /\ CASE request.type = "Get" -> EngineGet(request.key)
                [] request.type = "Set" ->
                     \E order \in Perms(Keys) : EngineSet(request.key, request.value, order)
                [] request.type = "Remove" ->
                     \E order \in Perms(Keys) : EngineRemove(request.key, order)
           /\ conn' = [conn EXCEPT !.inbox = Tail(@),
                                   !.decoded = Append(@, request),
                                   !.responses = Append(@, response(request, last'.res))]
           /\ executed' = Append(executed, conn.id)
    /\ UNCHANGED <<process, srv, accepted, requests, backlog>>

\* run returning the error of serve instead of logging it: the server ends
ServeDecodeError_exit ==
    /\ srv = "serve"
    /\ conn.inbox # <<>>
    /\ Head(conn.inbox) = Malformed
    /\ conn' = [conn EXCEPT !.inbox = <<>>, !.closed = TRUE, !.result = "error"]
    /\ srv' = "exited"
    /\ UNCHANGED <<process, accepted, requests, backlog, executed>>
    /\ UNCHANGED engineVars

\* request? fails: serve returns the error and run logs it
ServeDecodeError ==
    /\ srv = "serve"
    /\ conn.inbox # <<>>
    /\ Head(conn.inbox) = Malformed
    /\ conn' = [conn EXCEPT !.inbox = <<>>, !.closed = TRUE, !.result = "error"]
    /\ srv' = "accept"
    /\ UNCHANGED <<process, accepted, requests, backlog, executed>>
    /\ UNCHANGED engineVars

\* the request stream ends: serve returns Ok
ServeEnd ==
    /\ srv = "serve"
    /\ conn.inbox = <<>>
    /\ conn.closed
    /\ conn' = [conn EXCEPT !.result = "ok"]
    /\ srv' = "accept"
    /\ UNCHANGED <<process, accepted, requests, backlog, executed>>
    /\ UNCHANGED engineVars

NextServer ==
    \/ ClientConnect \/ Accept \/ ClientSend \/ ClientClose
    \/ ServeRequest \/ ServeDecodeError \/ ServeEnd

SpecServer == Init /\ [][NextServer]_vars

\* one iteration of the loop of serve in which the write or the flush of
\* the response fails, the peer being gone: the request was executed, serve
\* returns the error and run logs it
ServeWriteError ==
    /\ srv = "serve"
    /\ conn.inbox # <<>>
    /\ Head(conn.inbox) # Malformed
    /\ conn.closed
    /\ LET request == Head(conn.inbox)
       IN  /\ CASE request.type = "Get" -> EngineGet(request.key)
                [] request.type = "Set" ->
                     \E order \in Perms(Keys) : EngineSet(request.key, request.value, order)
                [] request.type = "Remove" ->
                     \E order \in Perms(Keys) : EngineRemove(request.key, order)
           /\ conn' = [conn EXCEPT !.inbox = <<>>,
                                   !.decoded = Append(@, request),
                                   !.result = "error"]
           /\ executed' = Append(executed, conn.id)
    /\ srv' = "accept"
    /\ UNCHANGED <<process, accepted, requests, backlog>>

\* the server with socket writes that may fail
NextServerIO ==
    \/ ClientConnect \/ Accept \/ ClientSend \/ ClientClose
    \/ ServeRequest \/ ServeDecodeError \/ ServeWriteError \/ ServeEnd

\* listener.incoming() returns a waiting stream: the accept loop goes on
SpecServerIO == Init /\ [][NextServerIO]_vars /\ WF_vars(Accept)

\* ------------------------------------------------------------- kvs-client
\* the line println! writes for a missing key
KeyNotFoundLine == Str("Key not found", 1)

\* main of kvs-client once the response to its request arrived: what it
\* prints on standard output and the exit status of the process
kvs_client_main(request, wire) ==
    LET r == Decode(ExpectedVariant(request), wire)
    IN  IF r.tag # "Ok" THEN [stdout |-> <<>>, status |-> 1]
        ELSE IF request.type = "Get"
        THEN [stdout |-> <<IF r.some THEN r.value ELSE KeyNotFoundLine>>, status |-> 0]
        ELSE [stdout |-> <<>>, status |-> 0]

\* a kvs-client process starts: it connects and writes the request of its
\* subcommand
ClientStart ==
    /\ srv \in {"accept", "serve"}
    /\ accepted + Len(backlog) < MaxCmds
    /\ \E request \in Requests :
         backlog' = Append(backlog, Sent(NewConn(accepted + Len(backlog) + 1), request))
    /\ requests' = requests + 1
    /\ UNCHANGED <<process, srv, conn, accepted, executed>>
    /\ UNCHANGED engineVars

\* the kvs-client process being served has read its response: main returns
\* and the stream is dropped
ClientExit ==
    /\ srv = "serve"
    /\ ~conn.closed
    /\ Len(conn.responses) = Len(conn.sent)
    /\ conn' = [conn EXCEPT !.closed = TRUE]
    /\ UNCHANGED <<process, srv, accepted, requests, backlog, executed>>
    /\ UNCHANGED engineVars

\* the server with kvs-client processes as its only clients
NextClient == ClientStart \/ Accept \/ ServeRequest \/ ClientExit \/ ServeEnd

SpecClient == Init /\ [][NextClient]_vars

\* ------------------------------------------------------ kvs-server startup
EngineEnum == {"Kvs", "Sled"}

\* impl ToString for EngineEnum
to_string(e) == IF e = "Kvs" THEN "kvs" ELSE "sled"

\* the test of main with the existence of the selected directory forgotten
wrong_engine_other_only(full_path, other_path, dirs) == other_path \in dirs

\* the test of main: the selected engine's directory is missing and the
\* other engine's is there
wrong_engine(full_path, other_path, dirs) ==
    full_path \notin dirs /\ other_path \in dirs

\* kvs-server before main ran: an engine chosen on the command line and a
\* current directory that holds any of the two engine directories, empty
InitStartup ==
    /\ files = EmptyMap
    /\ uuids = 0
    /\ engine = "none"
    /\ logger = [filename |-> 0, writer |-> 0, reader |-> 0, pos |-> 0]
    /\ index = EmptyMap
    /\ uncompacted = 0
    /\ last = Call("none", "", NoVal, OkUnit, FALSE)
    /\ kv = [k \in Keys |-> [state |-> "NeverSet"]]
    /\ reopened = FALSE
    /\ nops = 0
    /\ srv = "start"
    /\ conn = [NewConn(0) EXCEPT !.closed = TRUE, !.result = "none"]
    /\ accepted = 0
    /\ requests = 0
    /\ backlog = <<>>
    /\ executed = <<>>
    /\ \E e \in EngineEnum, dirs \in SUBSET {to_string(x) : x \in EngineEnum} :
         process = [engine |-> e, dirs |-> dirs, opened |-> "none", status |-> -1]

\* main of kvs-server
kvs_server_main ==
    /\ srv = "start"
    /\ LET full_path == to_string(process.engine)
           other_engine == IF process.engine = "Kvs" THEN "Sled" ELSE "Kvs"
           other_path == to_string(other_engine)
       IN  IF wrong_engine(full_path, other_path, process.dirs)
           THEN /\ process' = [process EXCEPT !.status = 1]
                /\ srv' = "exited"
                /\ UNCHANGED engineVars
           ELSE IF process.engine = "Kvs"
           THEN \E listing \in Perms(DOMAIN files) :
                  LET o == open(files, uuids, listing)
                  IN  /\ Install(o.st)
                      /\ last' = Call("open", "", NoVal, o.res, FALSE)
                      /\ process' = [process EXCEPT !.dirs = @ \cup {full_path},
                                                    !.opened = full_path,
                                                    !.status = IF o.res.tag = "Ok" THEN -1 ELSE 1]
                      /\ engine' = IF o.res.tag = "Ok" THEN "open" ELSE "failed"
                      /\ srv' = IF o.res.tag = "Ok" THEN "accept" ELSE "exited"
                      /\ UNCHANGED <<kv, reopened, nops>>
           ELSE /\ process' = [process EXCEPT !.dirs = @ \cup {full_path},
                                              !.opened = full_path]
                /\ engine' = "sled"
                /\ srv' = "sled"
                /\ UNCHANGED <<files, uuids, logger, index, uncompacted, last, kv, reopened, nops>>
    /\ UNCHANGED <<conn, accepted, requests, backlog, executed>>

\* kvs-server from its start, with kvs-client processes as its clients
NextStartup ==
    \/ kvs_server_main
    \/ ClientStart \/ Accept \/ ServeRequest \/ ClientExit \/ ServeEnd

SpecStartup == InitStartup /\ [][NextStartup]_vars

\* ------------------------------------------------------------ properties
\* the keys whose value the calls made so far decide
Decided == {k \in Keys : kv[k].state # "Undecided"}

\* the step is a call of set or remove on the engine
MutStep(op) == nops' = nops + 1 /\ last'.op = op

\* the step is a drop of the engine followed by open
OpenStep == nops' = nops + 1 /\ last'.op = "open"

\* the log file the engine appends to
ActiveLog == files[logger.writer]

\* C1: after any sequence of set and remove calls followed by a reopen,
\* get returns for every key the value the last successful set or remove on
\* it implies.
C1_Persistence ==
    (engine = "open" /\ last.op = "open")
        => \A k \in Decided : get(St, k) = Expected(kv[k])

\* C2: on an engine that was not reopened, get returns the value of the
\* latest set on the key and none after a successful remove, whether or not
\* a compaction has run.
C2_ReadYourWrites ==
    (engine = "open" /\ ~reopened)
        => \A k \in Decided : kv[k].state # "NeverSet" => get(St, k) = Expected(kv[k])

\* C3: a compaction changes no result of get: after a set or remove that
\* compacted, every key reads as it read on the log and index that call
\* had before it started the compaction.
C3_CompactionKeepsGet ==
    [][\A op \in {"set", "remove"} :
         (MutStep(op) /\ last'.compacted)
           => LET cmd == IF op = "set" THEN CmdSet(last'.key, last'.value)
                         ELSE CmdRemove(last'.key)
                  before == append(St, last'.key, cmd)
              IN  \A k \in Keys : get(St', k) = get(before, k)]_vars

\* C4: remove of a key that was never set fails with KeyNotFound and leaves
\* the log files, the write cursor, the index and uncompacted unchanged.
C4_RemoveNeverSet ==
    [][(MutStep("remove") /\ kv[last'.key].state = "NeverSet")
         => /\ last'.res = Err("KeyNotFound")
            /\ UNCHANGED <<files, logger, index, uncompacted>>]_vars

\* C4 witness: a remove of a never-set key has returned.
C4_Witness ==
    /\ last.op = "remove"
    /\ kv[last.key].state = "NeverSet"
    /\ last.res = Err("KeyNotFound")
    /\ \E k \in Keys : kv[k].state = "Set"

\* C5: remove of a key whose latest successful call was a remove fails with
\* KeyNotFound, on the same engine and after a reopen.
C5_RemoveRemoved ==
    [][(MutStep("remove") /\ kv[last'.key].state = "Removed")
         => last'.res = Err("KeyNotFound")]_vars

\* C6: every call of set returns Ok, whether or not it compacts.
C6_SetSucceeds == (last.op = "set") => (last.res = OkUnit)

\* C7: a reopen changes the result of get for no key.
C7_DirectoryReuse ==
    [][(OpenStep /\ engine' = "open")
         => \A k \in Keys : get(St', k) = get(St, k)]_vars

\* C8: between operations the directory holds at most one .log file.
C8_OneLogFile == Cardinality(DOMAIN files) <= 1

\* the bytes of one Set record for every key whose latest call was a set
RECURSIVE LiveBytes(_)
LiveBytes(ks) ==
    IF ks = {} THEN 0
    ELSE LET k == CHOOSE x \in ks : TRUE
         IN  (IF kv[k].state = "Set" THEN SerLen(CmdSet(k, kv[k].value)) ELSE 0)
             + LiveBytes(ks \ {k})

\* C9: right after a compaction the active log is no longer than one record
\* per live key, and holds no record of a key that is not live.
C9_CompactedLogBound ==
    (last.compacted /\ Decided = Keys)
        => /\ FileLen(ActiveLog) <= LiveBytes(Keys)
           /\ \A i \in 1..Len(ActiveLog) : kv[ActiveLog[i].key].state = "Set"

\* C10: on one connection the requests are decoded in the order they were
\* sent, every decoded request has exactly one response, the i-th response
\* is of the variant of the i-th request, and the client decodes it as the
\* variant it expects.
C10_OneResponsePerRequest ==
    /\ Len(conn.decoded) <= Len(conn.sent)
    /\ conn.decoded = SubSeq(conn.sent, 1, Len(conn.decoded))
    /\ Len(conn.responses) = Len(conn.decoded)
    /\ \A i \in 1..Len(conn.responses) :
         /\ conn.responses[i].variant = ExpectedVariant(conn.decoded[i])
         /\ Decode(ExpectedVariant(conn.decoded[i]), Encode(conn.responses[i])).tag
              # "DecodeError"

\* C10 witness: a connection on which a set and then a remove of another,
\* absent key were answered, the remove with an error.
C10_Witness ==
    /\ Len(conn.responses) = 2
    /\ conn.decoded[1].type = "Set"
    /\ conn.decoded[2].type = "Remove"
    /\ conn.responses[1].tag = "Ok"
    /\ conn.responses[2].tag = "Err"

\* C11: an error the engine returns for a request ends neither the server nor
\* the connection: the error's message is sent as Err of the response variant
\* of that request, the connection stays in service, and the requests behind
\* it stay in the stream to be read
C11_EngineErrorAnswered ==
    [][(executed' # executed /\ last'.res.tag = "Err") =>
         LET request == Head(conn.inbox)
             n == Len(conn.responses)
         IN  /\ srv' = "serve"
             /\ conn'.id = conn.id
             /\ conn'.result = "serving"
             /\ conn'.closed = conn.closed
             /\ conn'.inbox = Tail(conn.inbox)
             /\ Len(conn'.responses) = n + 1
             /\ SubSeq(conn'.responses, 1, n) = conn.responses
             /\ conn'.responses[n + 1] =
                    [variant |-> ExpectedVariant(request), tag |-> "Err",
                     error |-> ErrorMessage(last'.res.error)]]_vars

\* a connection whose first request the engine refused and whose second
\* request was answered after it
C11_Witness ==
    /\ Len(conn.responses) = 2
    /\ conn.decoded[1].type = "Remove"
    /\ conn.responses[1].tag = "Err"
    /\ conn.responses[1].error = ErrorMessage("KeyNotFound")
    /\ conn.decoded[2].type = "Set"
    /\ conn.responses[2].tag = "Ok"

\* the parts of the state KvStore holds and the directory it writes
EngineState == <<files, uuids, engine, logger, index, uncompacted>>

\* C12: connections are served one at a time in the order they are accepted:
\* the requests executed are grouped by connection in that order, a waiting
\* connection has had nothing executed, the server turns to the next
\* connection only between connections, and nothing but the execution of a
\* request changes the engine, so a connection finds the state the one
\* before it left
C12_OneConnectionAtATime ==
    /\ [](\A i, j \in 1..Len(executed) : i < j => executed[i] <= executed[j])
    /\ [](\A i \in 1..Len(backlog) :
            /\ backlog[i].decoded = <<>>
            /\ backlog[i].responses = <<>>
            /\ backlog[i].id = accepted + i)
    /\ [][conn'.id # conn.id =>
             /\ srv = "accept"
             /\ conn'.id = accepted + 1
             /\ accepted' = accepted + 1]_vars
    /\ [][executed' = executed => UNCHANGED EngineState]_vars
    /\ [][executed' # executed => executed' = Append(executed, accepted)]_vars

\* the second connection, whose request waited in the queue or came later,
\* reads the value the first connection wrote
C12_Witness ==
    /\ executed = <<1, 2>>
    /\ conn.id = 2
    /\ conn.decoded[1].type = "Get"
    /\ conn.responses[1].tag = "Ok"
    /\ conn.responses[1].value.some

\* the directory named after an engine
DirOf(e) == IF e = "Kvs" THEN "kvs" ELSE "sled"

\* C13: kvs-server leaves with a nonzero status and no engine opened exactly
\* when the directory of the other engine exists and the directory of the
\* selected engine does not; in every other case it opens the selected
\* engine on the directory named after it and runs
C13_StartupEngineCheck ==
    [][(srv = "start" /\ srv' # "start") =>
         LET selected == DirOf(process.engine)
             other == DirOf(CHOOSE e \in EngineEnum : e # process.engine)
             wrong == other \in process.dirs /\ selected \notin process.dirs
         IN  /\ process'.engine = process.engine
             /\ wrong <=> (srv' = "exited" /\ process'.status > 0)
             /\ wrong => /\ engine' = "none"
                         /\ process'.opened = "none"
                         /\ process'.dirs = process.dirs
                         /\ files' = files
             /\ ~wrong => /\ process'.status = -1
                          /\ process'.opened = selected
                          /\ selected \in process'.dirs
                          /\ engine' = IF process.engine = "Kvs" THEN "open" ELSE "sled"
                          /\ srv' = IF process.engine = "Kvs" THEN "accept" ELSE "sled"]_vars

\* kvs-server started with both directories present serves a request on the
\* kvs engine it opened
C13_WitnessRun ==
    /\ process.engine = "Kvs"
    /\ process.dirs = {"kvs", "sled"}
    /\ process.opened = "kvs"
    /\ Len(conn.responses) = 1

\* kvs-server refused to start on the directory of the other engine
C13_Witness ==
    /\ srv = "exited"
    /\ process.engine = "Sled"
    /\ process.dirs = {"kvs"}

\* C14: a get of kvs-client for a key that the calls made so far leave absent
\* is answered ResponseGet::Ok(None), prints Key not found and exits with
\* status 0; an rm of kvs-client for such a key is answered
\* ResponseRemove::Err with the key-not-found message and exits nonzero
C14_ClientOutcomes ==
    [][(executed' # executed /\ kv[Head(conn.inbox).key].state \in {"NeverSet", "Removed"}) =>
         LET request == Head(conn.inbox)
             sent == conn'.responses[Len(conn'.responses)]
             outcome == kvs_client_main(request, Encode(sent))
         IN  /\ request.type = "Get" =>
                   /\ sent = [variant |-> "ResponseGet", tag |-> "Ok", value |-> OkNone]
                   /\ outcome = [stdout |-> <<KeyNotFoundLine>>, status |-> 0]
             /\ request.type = "Remove" =>
                   /\ sent = [variant |-> "ResponseRemove", tag |-> "Err",
                              error |-> ErrorMessage("KeyNotFound")]
                   /\ outcome.status # 0]_vars

\* the position in recs of the last record of key k
LastOf(recs, k) ==
    CHOOSE i \in 1..Len(recs) :
        /\ recs[i].key = k
        /\ \A j \in (i + 1)..Len(recs) : recs[j].key # k

\* C15: for every key of the index, the bytes [start, start + len) of the
\* active log are the latest record written for the key, and they decode to
\* the command cached in the entry
C15_IndexAccuracy ==
    engine = "open" =>
        \A k \in DOMAIN index :
            /\ \E i \in 1..Len(ActiveLog) : ActiveLog[i].key = k
            /\ index[k].start = Offset(ActiveLog, LastOf(ActiveLog, k))
            /\ index[k].len = SerLen(ActiveLog[LastOf(ActiveLog, k)])
            /\ from_reader(files[logger.reader], index[k].start, index[k].len)
                  = [tag |-> "Ok", cmd |-> index[k].cmd]

\* C16: whenever no call is running, logger.pos is the length in bytes of the
\* active log file
C16_WriteCursor ==
    engine = "open" => logger.pos = FileLen(ActiveLog)

\* the command a call of set or remove appends
Appended(call) ==
    IF call.op = "set" THEN CmdSet(call.key, call.value) ELSE CmdRemove(call.key)

\* C17: when a compaction has run, the active log holds exactly one record
\* for every key of the index and no other record, each record is the cached
\* command of its key, the index has the keys and the cached commands it had
\* before the compaction, and uncompacted is 0
C17_CompactionPostcondition ==
    [][\A op \in {"set", "remove"} :
         (MutStep(op) /\ last'.compacted)
           => LET before == append(St, last'.key, Appended(last'))
              IN  /\ DOMAIN index' = DOMAIN before.index
                  /\ \A k \in DOMAIN index' : index'[k].cmd = before.index[k].cmd
                  /\ Len(ActiveLog') = Cardinality(DOMAIN index')
                  /\ \A i \in 1..Len(ActiveLog') :
                        /\ ActiveLog'[i].key \in DOMAIN index'
                        /\ ActiveLog'[i] = index'[ActiveLog'[i].key].cmd
                  /\ \A k \in DOMAIN index' :
                        Cardinality({i \in 1..Len(ActiveLog') : ActiveLog'[i].key = k}) = 1
                  /\ uncompacted' = 0]_vars

\* a compaction that dropped a superseded record and left one record for
\* each of two keys
C17_Witness ==
    /\ last.compacted
    /\ last.res = OkUnit
    /\ nops = 3
    /\ DOMAIN index = Keys
    /\ Len(ActiveLog) = 2

\* C18: after a compaction the file name, the writer and the reader of the
\* logger designate one file, which did not exist before, and the one file
\* the compaction deleted is the file that was active before it
C18_CompactionSwitchesFile ==
    [][\A op \in {"set", "remove"} :
         (MutStep(op) /\ last'.compacted)
           => /\ logger'.writer \notin DOMAIN files
              /\ logger'.filename = logger'.writer
              /\ logger'.reader = logger'.writer
              /\ DOMAIN files' = (DOMAIN files \ {logger.writer}) \cup {logger'.writer}]_vars

\* C19: after open, the index holds exactly the keys of the records of the
\* log, each with the offset, the length and the command of the last record
\* of the key, the write cursor is the sum of the lengths of the records,
\* and uncompacted is 0
C19_RecoveryIsReplay ==
    (last.op = "open" /\ engine = "open") =>
        LET recs == files[logger.filename]
        IN  /\ DOMAIN index = {recs[i].key : i \in 1..Len(recs)}
            /\ \A k \in DOMAIN index :
                  index[k] = CmdIdx(Offset(recs, LastOf(recs, k)),
                                    SerLen(recs[LastOf(recs, k)]),
                                    recs[LastOf(recs, k)])
            /\ logger.pos = FileLen(recs)
            /\ logger.writer = logger.filename
            /\ logger.reader = logger.filename
            /\ uncompacted = 0

\* the engine opened again on a log of three records, the last of which
\* removes a key that the first one sets
C19_Witness ==
    /\ last.op = "open"
    /\ engine = "open"
    /\ reopened
    /\ Len(files[logger.filename]) = 3
    /\ files[logger.filename][1].key = "a"
    /\ files[logger.filename][1].type = "Set"
    /\ files[logger.filename][3] = CmdRemove("a")
    /\ "b" \in DOMAIN index

\* C20: a set or remove that appends a record adds the length of that
\* record to uncompacted, and a compaction, which alone creates a log file
\* here, runs inside that call exactly when the sum exceeds 1,048,576; a get
\* and an open create no file and change none, and open leaves uncompacted 0
C20_CompactionTrigger ==
    /\ [][\A op \in {"set", "remove"} :
            (MutStep(op) /\ last'.res # Err("KeyNotFound"))
              => LET total == uncompacted + SerLen(Appended(last'))
                 IN  /\ (uuids' # uuids) <=> (total > 1048576)
                     /\ last'.compacted <=> (total > 1048576)
                     /\ uuids' = uuids => uncompacted' = total]_vars
    /\ [][(nops' = nops /\ last'.op = "get") =>
             UNCHANGED <<files, uuids, logger, index, uncompacted>>]_vars
    /\ [][OpenStep => (files' = files /\ uuids' = uuids /\ uncompacted' = 0)]_vars

\* two records that bring uncompacted to exactly 1,048,576 and start no
\* compaction
C20_Witness ==
    /\ uncompacted = 1048576
    /\ last.op = "set"
    /\ ~last.compacted
    /\ Len(ActiveLog) = 2
    /\ uuids = 1

\* C21: a key whose latest successful call is a remove stays in the index
\* with a cached Remove command and reads as not present, also after a
\* compaction and after the engine is opened again, and a remove of a key
\* that has an index entry succeeds
C21_TombstoneRetention ==
    /\ [](engine = "open" =>
            \A k \in Keys :
                kv[k].state = "Removed" =>
                    /\ k \in DOMAIN index
                    /\ index[k].cmd = CmdRemove(k)
                    /\ get(St, k) = OkNone)
    /\ [][(MutStep("remove") /\ last'.key \in DOMAIN index) => last'.res = OkUnit]_vars

\* C22: no record of any log file is Empty, and the cached command of every
\* index entry is a Set or a Remove of the key the entry is stored under
C22_EmptyNeverEscapes ==
    /\ \A f \in DOMAIN files : \A i \in 1..Len(files[f]) :
          files[f][i].type \in {"Set", "Remove"}
    /\ engine = "open" =>
          \A k \in DOMAIN index :
              /\ index[k].cmd.type \in {"Set", "Remove"}
              /\ index[k].cmd.key = k

\* an index rebuilt by open, then written out by a compaction, tombstone
\* included
C22_Witness ==
    /\ engine = "open"
    /\ reopened
    /\ last.compacted
    /\ \E k \in DOMAIN index : index[k].cmd.type = "Remove"
    /\ \E k \in DOMAIN index : index[k].cmd.type = "Set"

\* the positions of the records of recs that are no Set and no Remove
Bad(recs) == {i \in 1..Len(recs) : recs[i].type \notin {"Set", "Remove"}}

\* C23: open of a log that holds an Empty record or a record that does not
\* decode returns an error, UnexpectedCommandType when the first such
\* record is Empty and a decoding error otherwise, and yields no engine;
\* open of a log without such a record yields one
C23_RecoveryAborts ==
    last.op = "open" =>
        LET recs == files[logger.filename]
        IN  IF Bad(recs) = {}
            THEN engine = "open" /\ last.res = OkUnit
            ELSE LET i == CHOOSE j \in Bad(recs) : \A m \in Bad(recs) : j <= m
                 IN  /\ engine = "failed"
                     /\ last.res = IF recs[i].type = "Empty"
                                    THEN Err("UnexpectedCommandType")
                                    ELSE Err("Serde")

\* open refused a log whose first record is good and whose second is Empty
C23_Witness ==
    /\ last.op = "open"
    /\ engine = "failed"
    /\ last.res = Err("UnexpectedCommandType")
    /\ Len(files[0]) >= 2
    /\ files[0][1].type = "Set"
    /\ files[0][2] = CmdEmpty

\* C24: a get changes neither the index, nor the contents or the set of the
\* log files, nor the write cursor, nor uncompacted, and a get of a key
\* without index entry returns Ok(None)
C24_GetReadOnly ==
    [][(nops' = nops /\ last'.op = "get") =>
         /\ index' = index
         /\ files' = files
         /\ DOMAIN files' = DOMAIN files
         /\ logger'.pos = logger.pos
         /\ logger' = logger
         /\ uncompacted' = uncompacted
         /\ last'.key \notin DOMAIN index => last'.res = OkNone]_vars

\* a get of a key without entry on a store that holds another key
C24_Witness ==
    /\ last.op = "get"
    /\ last.key \notin DOMAIN index
    /\ last.res = OkNone
    /\ DOMAIN index # {}
    /\ nops >= 2

\* C25: a connection that ends in an error ends alone: the server goes back
\* to accepting with its queue as it was, nothing but a request executed in
\* that step changes the engine, so what earlier requests did stays, and a
\* connection waiting in the queue is accepted and served next
C25_ErrorEndsOnlyConnection ==
    /\ [][(conn.result = "serving" /\ conn'.result = "error") =>
             /\ srv' = "accept"
             /\ process' = process
             /\ backlog' = backlog
             /\ accepted' = accepted
             /\ executed' = executed => (UNCHANGED EngineState /\ kv' = kv)]_vars
    /\ [][conn'.result = "serving" =>
             (conn.result = "serving" /\ conn'.id = conn.id)
               \/ (srv = "accept" /\ srv' = "serve" /\ conn' = Head(backlog))]_vars
    /\ (conn.result = "error" /\ backlog # <<>>) ~> (conn.result = "serving")

\* a connection failed on bytes that are no request after its set was
\* answered; the value is in the store and another connection waits
C25_Witness ==
    /\ conn.result = "error"
    /\ srv = "accept"
    /\ Len(conn.responses) = 1
    /\ conn.decoded[1].type = "Set"
    /\ conn.responses[1].tag = "Ok"
    /\ get(St, conn.decoded[1].key) = OkSome(conn.decoded[1].value)
    /\ backlog # <<>>

====
